---- MODULE Spec2Model ----
(***************************************************************************)
(* Model of thermodynamics/make_component_table.py: the script that builds *)
(* a table of fluid properties by querying the NIST WebBook once per       *)
(* temperature, removing the samples at phase transitions, converting the  *)
(* units and writing one row per surviving sample.                         *)
(*                                                                         *)
(* Numbers are exact: a float of the script is a rational [n, d] with      *)
(* d > 0 (d = 0 stands for a name that has not been assigned yet).         *)
(* Python indices are 0-based; At(s, k) reads s[k] of the script.          *)
(***************************************************************************)
EXTENDS Integers, Sequences, FiniteSets, TLC

\* ------------------------------------------------------------- bounds
MaxLen == 7
MaxRunLen == 3
MaxNTemp == 2
MaxGridNTemp == 4
MaxGridTemp == 2

\* ------------------------------------------------------------- exact arithmetic
Rat(n, d) == [n |-> n, d |-> d]
NotComputed == Rat(0, 0)
RatOfInt(a) == Rat(a, 1)
RatDiv(a, b) == IF b < 0 THEN Rat(-a, -b) ELSE Rat(a, b)
RatAdd(a, b) == Rat(a.n * b.d + b.n * a.d, a.d * b.d)
RatSub(a, b) == Rat(a.n * b.d - b.n * a.d, a.d * b.d)
RatMulInt(k, a) == Rat(k * a.n, a.d)
RatEq(a, b) == a.n * b.d = b.n * a.d
RatLess(a, b) == a.n * b.d < b.n * a.d

At(s, k) == s[k + 1]
Range(s) == {s[k] : k \in 1..Len(s)}

\* ------------------------------------------------------------- inputs
CompNames == {"H2O", "CO2", "N2"}
Supported == {"H2O", "CO2"}
PhaseLabels == {"A", "B"}
RunTempPairs == {<<0, 2>>, <<1, 1>>}
NPressValues == {0, 1, 2}
PressPairs == {<<1, 3>>}

SeqsUpTo(S, lo, hi) == UNION {[1..m -> S] : m \in lo..hi}

\* The service's isotherm for a sequence of phase labels: pressures ascend, and
\* at a phase transition the service gives the transition pressure twice, once
\* for each phase; density, viscosity and enthalpy identify the sample.
RECURSIVE ServicePressure(_, _)
ServicePressure(ph, k) ==
    IF k = 1 THEN 1
    ELSE IF ph[k] # ph[k - 1] THEN ServicePressure(ph, k - 1)
    ELSE ServicePressure(ph, k - 1) + 1

ServiceValues(ph) ==
    [Pressure_Pa    |-> [k \in 1..Len(ph) |-> ServicePressure(ph, k)],
     Density_kgm3   |-> [k \in 1..Len(ph) |-> 100 + k],
     Viscosity_uPas |-> [k \in 1..Len(ph) |-> 200 + k],
     Enthalpy_kJkg  |-> [k \in 1..Len(ph) |-> 300 + k]]

NoValues == ServiceValues(<<>>)

\* ------------------------------------------------------------- state
VARIABLES cmdArgs, pc, delta_temperature, delta_pressure, fileName, header,
          outFile, rowOrigin, i, temperature, requests, response,
          phase, values, phaseBoundaryIndices, pressure, density, viscosity,
          enthalpy

vars == <<cmdArgs, pc, delta_temperature, delta_pressure, fileName, header,
          outFile, rowOrigin, i, temperature, requests, response,
          phase, values, phaseBoundaryIndices, pressure, density, viscosity,
          enthalpy>>

setup == <<delta_temperature, delta_pressure>>
file == <<fileName, header, outFile, rowOrigin>>
locals == <<phase, values, phaseBoundaryIndices, pressure, density, viscosity,
            enthalpy>>

\* ------------------------------------------------------------- Grid Builder
DeltaTemperature_ByCount(args) ==
    IF args.n_temp = 1 THEN RatOfInt(0)
    ELSE RatDiv(args.max_temp - args.min_temp, args.n_temp)

DeltaTemperature(args) ==
    IF args.n_temp = 1 THEN RatOfInt(0)
    ELSE RatDiv(args.max_temp - args.min_temp, args.n_temp - 1)

Temperature(args, idx, delta) == RatAdd(RatOfInt(args.min_temp), RatMulInt(idx, delta))

NPressInvalid_Below1(args) == args.n_press < 1

NPressInvalid(args) == args.n_press < 2

DeltaPressure(args) == RatDiv(args.max_press - args.min_press, args.n_press - 1)

\* ------------------------------------------------------------- Query Constructor
ChemicalID(comp) == IF comp = "H2O" THEN "C7732185" ELSE "C124389"

Query(args, T, dp) ==
    [ID |-> ChemicalID(args.comp_name), PLow |-> args.min_press,
     PHigh |-> args.max_press, PInc |-> dp, T |-> T]

Lower(comp) ==
    CASE comp = "H2O" -> "h2o"
      [] comp = "CO2" -> "co2"
      [] comp = "N2" -> "n2"

FileNameOf(comp) == Lower(comp) \o "values.csv"

\* ------------------------------------------------------------- Phase-Boundary Filter
RECURSIVE ScanFrom(_, _, _)
ScanFrom(ph, j, stop) ==
    IF j >= stop THEN <<>>
    ELSE (IF At(ph, j) # At(ph, j + 1) THEN <<j, j + 1>> ELSE <<>>)
         \o ScanFrom(ph, j + 1, stop)

RECURSIVE ScanOnlyJ(_, _, _)
ScanOnlyJ(ph, j, stop) ==
    IF j >= stop THEN <<>>
    ELSE (IF At(ph, j) # At(ph, j + 1) THEN <<j>> ELSE <<>>)
         \o ScanOnlyJ(ph, j + 1, stop)

PhaseBoundaryIndices_OnlyJ(ph) == ScanOnlyJ(ph, 1, Len(ph) - 1)

PhaseBoundaryIndices_From0(ph) == ScanFrom(ph, 0, Len(ph) - 1)

PhaseBoundaryIndices_ShortScan(ph) == ScanFrom(ph, 1, Len(ph) - 2)

PhaseBoundaryIndices(ph) == ScanFrom(ph, 1, Len(ph) - 1)

\* np.delete(arr, obj): arr without the entries whose index is in obj; an index
\* named twice is removed once.
RECURSIVE KeepFrom(_, _, _)
KeepFrom(arr, k, obj) ==
    IF k >= Len(arr) THEN <<>>
    ELSE (IF k \in Range(obj) THEN <<>> ELSE <<At(arr, k)>>) \o KeepFrom(arr, k + 1, obj)

NpDelete(arr, obj) == KeepFrom(arr, 0, obj)

\* The indices that survive, in order: index k of the response for each output row.
KeptIndices(n, obj) == NpDelete([k \in 1..n |-> k - 1], obj)

\* ------------------------------------------------------------- Unit Normalizer
MicroToSI(v) == Rat(v, 1000000)
KiloToSI(h) == h * 1000

Normalized(vals, obj) ==
    [pressure  |-> NpDelete(vals.Pressure_Pa, obj),
     density   |-> NpDelete(vals.Density_kgm3, obj),
     viscosity |-> [k \in 1..Len(NpDelete(vals.Viscosity_uPas, obj)) |->
                        MicroToSI(NpDelete(vals.Viscosity_uPas, obj)[k])],
     enthalpy  |-> [k \in 1..Len(NpDelete(vals.Enthalpy_kJkg, obj)) |->
                        KiloToSI(NpDelete(vals.Enthalpy_kJkg, obj)[k])]]

Min(a, b) == IF a < b THEN a ELSE b

Rows_Reversed(T, out) ==
    [k \in 1..Len(out.pressure) |->
        [temperature |-> T, p |-> out.pressure[Len(out.pressure) + 1 - k],
         rho |-> out.density[Len(out.pressure) + 1 - k],
         mu |-> out.viscosity[Len(out.pressure) + 1 - k],
         h |-> out.enthalpy[Len(out.pressure) + 1 - k]]]

\* zip(pressure, density, viscosity, enthalpy) formatted with the temperature
Rows(T, out) ==
    [k \in 1..Min(Min(Len(out.pressure), Len(out.density)),
                  Min(Len(out.viscosity), Len(out.enthalpy))) |->
        [temperature |-> T, p |-> out.pressure[k], rho |-> out.density[k],
         mu |-> out.viscosity[k], h |-> out.enthalpy[k]]]

\* ------------------------------------------------------------- the script, step by step
NoResponse == [status |-> "none", parsable |-> FALSE, phase |-> <<>>]

RunArgs ==
    {[min_temp |-> t[1], max_temp |-> t[2], n_temp |-> nt,
      min_press |-> p[1], max_press |-> p[2], n_press |-> np, comp_name |-> c] :
        t \in RunTempPairs, nt \in 0..MaxNTemp, p \in PressPairs,
        np \in NPressValues, c \in CompNames}

\* What the service can answer: a table of at least two samples (n_press >= 2
\* points were asked for) or a body the parser cannot read, either of them with
\* a success or a non-success HTTP status. The script compares phase labels
\* for equality only, so the label of the first sample is fixed here (an
\* isotherm starts in one phase, here called A).
RunBodies ==
    {[parsable |-> TRUE, phase |-> ph] :
        ph \in {q \in SeqsUpTo(PhaseLabels, 2, MaxRunLen) : q[1] = "A"}}
    \cup {[parsable |-> FALSE, phase |-> <<>>]}

Statuses == {"ok", "error_status"}

Idle ==
    /\ pc = "start"
    /\ delta_temperature = NotComputed
    /\ delta_pressure = NotComputed
    /\ fileName = ""
    /\ header = <<>>
    /\ outFile = <<>>
    /\ rowOrigin = <<>>
    /\ i = 0
    /\ temperature = NotComputed
    /\ requests = <<>>
    /\ response = NoResponse
    /\ phase = <<>>
    /\ values = NoValues
    /\ phaseBoundaryIndices = <<>>
    /\ pressure = <<>>
    /\ density = <<>>
    /\ viscosity = <<>>
    /\ enthalpy = <<>>

Init ==
    /\ cmdArgs \in RunArgs
    /\ Idle

\* lines 70-76
GridSetup ==
    /\ pc = "start"
    /\ delta_temperature' = DeltaTemperature(cmdArgs)
    /\ pc' = "press"
    /\ UNCHANGED <<cmdArgs, delta_pressure, file, i, temperature, requests,
                   response, locals>>

\* lines 78-84: exit() before the increment, or the increment (a division by
\* n_press - 1 = 0 raises ZeroDivisionError)
PressSetup ==
    /\ pc = "press"
    /\ IF NPressInvalid(cmdArgs)
         THEN pc' = "exited" /\ UNCHANGED delta_pressure
         ELSE IF cmdArgs.n_press - 1 = 0
                THEN pc' = "crashed" /\ UNCHANGED delta_pressure
                ELSE pc' = "open" /\ delta_pressure' = DeltaPressure(cmdArgs)
    /\ UNCHANGED <<cmdArgs, delta_temperature, file, i, temperature, requests,
                   response, locals>>

\* lines 86-94: the file is created (and truncated) and the header is written.
\* The script never closes outFile: what it has written reaches the file when
\* the interpreter exits, after the last line or after an uncaught exception,
\* so header and outFile are the contents of the file the run leaves behind.
OpenFile ==
    /\ pc = "open"
    /\ fileName' = FileNameOf(cmdArgs.comp_name)
    /\ header' = <<[compName |-> cmdArgs.comp_name,
                    minTemp |-> cmdArgs.min_temp, maxTemp |-> cmdArgs.max_temp,
                    nTemp |-> cmdArgs.n_temp, minPress |-> cmdArgs.min_press,
                    maxPress |-> cmdArgs.max_press, nPress |-> cmdArgs.n_press]>>
    /\ outFile' = <<>>
    /\ rowOrigin' = <<>>
    /\ i' = 0
    /\ pc' = "loop"
    /\ UNCHANGED <<cmdArgs, setup, temperature, requests, response, locals>>

\* lines 97-117: the next temperature and its query
LoopHead ==
    /\ pc = "loop"
    /\ i < cmdArgs.n_temp
    /\ temperature' = Temperature(cmdArgs, i, delta_temperature)
    /\ pc' = "get"
    /\ UNCHANGED <<cmdArgs, setup, file, i, requests, response, locals>>

\* line 147: the loop is over
LoopExit ==
    /\ pc = "loop"
    /\ i >= cmdArgs.n_temp
    /\ pc' = "done"
    /\ UNCHANGED <<cmdArgs, setup, file, i, temperature, requests, response, locals>>

Logged(outcome, body) ==
    [i |-> i, query |-> Query(cmdArgs, temperature, delta_pressure),
     outcome |-> outcome, parsable |-> body.parsable, phase |-> body.phase]

\* lines 118-120: requests.get raises on a network error and the script stops
GetRaises ==
    /\ pc = "get"
    /\ requests' = Append(requests, Logged("network_error", NoResponse))
    /\ pc' = "crashed"
    /\ UNCHANGED <<cmdArgs, setup, file, i, temperature, response, locals>>

\* lines 118-122: requests.get returns a response, whatever its status
GetReturnsFrom(sts, bodies) ==
    /\ pc = "get"
    /\ \E st \in sts, body \in bodies :
          /\ response' = [status |-> st, parsable |-> body.parsable, phase |-> body.phase]
          /\ requests' = Append(requests, Logged(st, body))
    /\ pc' = "parse"
    /\ UNCHANGED <<cmdArgs, setup, file, i, temperature, locals>>

\* lines 123-124: genfromtxt or the column lookup raises on an unreadable body
ParseRaises ==
    /\ pc = "parse"
    /\ ~response.parsable
    /\ pc' = "crashed"
    /\ UNCHANGED <<cmdArgs, setup, file, i, temperature, requests, response, locals>>

\* lines 123-142: the parsed arrays, the filter and the unit conversion
Filtered(ph, vals) ==
    /\ phase' = ph
    /\ values' = vals
    /\ phaseBoundaryIndices' = PhaseBoundaryIndices(ph)
    /\ pressure' = Normalized(vals, PhaseBoundaryIndices(ph)).pressure
    /\ density' = Normalized(vals, PhaseBoundaryIndices(ph)).density
    /\ viscosity' = Normalized(vals, PhaseBoundaryIndices(ph)).viscosity
    /\ enthalpy' = Normalized(vals, PhaseBoundaryIndices(ph)).enthalpy

\* lines 123-145: one iteration's body after the request
ParseAndWrite ==
    /\ pc = "parse"
    /\ response.parsable
    /\ Filtered(response.phase, ServiceValues(response.phase))
    /\ outFile' = outFile \o
          Rows(temperature, [pressure |-> pressure', density |-> density',
                             viscosity |-> viscosity', enthalpy |-> enthalpy'])
    /\ rowOrigin' = rowOrigin \o
          [k \in 1..Len(pressure') |->
              <<i, KeptIndices(Len(response.phase), phaseBoundaryIndices')[k]>>]
    /\ i' = i + 1
    /\ pc' = "loop"
    /\ UNCHANGED <<cmdArgs, setup, fileName, header, temperature, requests, response>>

GetReturns == GetReturnsFrom(Statuses, RunBodies)

Next ==
    \/ GridSetup
    \/ PressSetup
    \/ OpenFile
    \/ LoopHead
    \/ LoopExit
    \/ GetRaises
    \/ GetReturns
    \/ ParseRaises
    \/ ParseAndWrite

Spec == Init /\ [][Next]_vars

\* ------------------------------------------------------------- one isotherm, long responses
\* The script run for one temperature, with every table of up to MaxLen samples
\* as the service's answer.
FilterArgs ==
    {[min_temp |-> 0, max_temp |-> 0, n_temp |-> 1,
      min_press |-> 1, max_press |-> 3, n_press |-> 2, comp_name |-> "H2O"]}

FilterBodies ==
    {[parsable |-> TRUE, phase |-> ph] : ph \in SeqsUpTo(PhaseLabels, 2, MaxLen)}

FilterInit ==
    /\ cmdArgs \in FilterArgs
    /\ Idle

FilterGet == GetReturnsFrom({"ok"}, FilterBodies)

FilterNext ==
    \/ GridSetup
    \/ PressSetup
    \/ OpenFile
    \/ LoopHead
    \/ LoopExit
    \/ FilterGet
    \/ ParseAndWrite

FilterSpec == FilterInit /\ [][FilterNext]_vars

\* ------------------------------------------------------------- the grid, wide inputs
\* The script run over every temperature range and count within the bounds, the
\* service answering each query with the same two-sample table.
GridArgs ==
    {[min_temp |-> lo, max_temp |-> hi, n_temp |-> nt,
      min_press |-> 1, max_press |-> 3, n_press |-> 2, comp_name |-> "CO2"] :
        lo \in (0 - MaxGridTemp)..MaxGridTemp, hi \in (0 - MaxGridTemp)..MaxGridTemp,
        nt \in 0..MaxGridNTemp}

GridInit ==
    /\ cmdArgs \in GridArgs
    /\ Idle

GridGet == GetReturnsFrom({"ok"}, {[parsable |-> TRUE, phase |-> <<"A", "A">>]})

GridNext ==
    \/ GridSetup
    \/ PressSetup
    \/ OpenFile
    \/ LoopHead
    \/ LoopExit
    \/ GridGet
    \/ ParseAndWrite

GridSpec == GridInit /\ [][GridNext]_vars

\* ------------------------------------------------------------- properties
\* The iteration for the last request is over: the locals hold its result.
Processed == pc \in {"loop", "done"} /\ i >= 1

\* The indices the removal rule names, {j, j+1 : 1 <= j <= len-2, phase[j] # phase[j+1]}.
Removed(ph) ==
    {k \in 0..(Len(ph) - 1) :
        \E j \in 1..(Len(ph) - 2) : At(ph, j) # At(ph, j + 1) /\ k \in {j, j + 1}}

\* The r-th surviving index (r from 1) under a removed set R.
Survivor(n, R, r) ==
    CHOOSE k \in 0..(n - 1) :
        k \notin R /\ Cardinality({m \in 0..(k - 1) : m \notin R}) = r - 1

\* Output position r holds sample k of the response in all four sequences.
AlignedAt(r, k) ==
    /\ pressure[r] = At(values.Pressure_Pa, k)
    /\ density[r] = At(values.Density_kgm3, k)
    /\ viscosity[r].n = At(values.Viscosity_uPas, k) /\ viscosity[r].d = 1000000
    /\ enthalpy[r] = 1000 * At(values.Enthalpy_kJkg, k)

SurvivingLabels == [r \in 1..Len(rowOrigin) |-> At(phase, rowOrigin[r][2])]

\* C1: the removed indices are exactly {j, j+1 : 1 <= j <= len-2 and
\* phase[j] # phase[j+1]}, each removed once; pressure, density, viscosity and
\* enthalpy lose the same indices and stay aligned row by row; with identical
\* labels nothing is removed.
C1_RemovalRule ==
    Processed =>
        /\ Range(phaseBoundaryIndices) = Removed(phase)
        /\ Len(pressure) = Len(phase) - Cardinality(Removed(phase))
        /\ Len(density) = Len(pressure)
        /\ Len(viscosity) = Len(pressure)
        /\ Len(enthalpy) = Len(pressure)
        /\ Len(outFile) = Len(pressure)
        /\ \A r \in 1..Len(pressure) :
              /\ AlignedAt(r, Survivor(Len(phase), Removed(phase), r))
              /\ outFile[r].p = pressure[r] /\ outFile[r].rho = density[r]
              /\ outFile[r].mu = viscosity[r] /\ outFile[r].h = enthalpy[r]
        /\ ((\A k \in 1..Len(phase) : phase[k] = phase[1]) =>
              phaseBoundaryIndices = <<>> /\ Len(outFile) = Len(phase))

\* An index is marked twice (two boundaries in a row) and samples survive on both sides.
C1_Witness ==
    /\ Processed
    /\ Len(phaseBoundaryIndices) > Cardinality(Range(phaseBoundaryIndices))
    /\ Len(pressure) >= 2
    /\ Len(pressure) < Len(phase)

ExamplePhase == <<"A", "A", "A", "B", "B", "A", "A">>

\* C2 as stated: on [A,A,A,B,B,A,A] the pairs (2,3) and (4,5) are removed and
\* four samples with labels [A,A,A,A] survive.
C2_FourSurvive ==
    (Processed /\ phase = ExamplePhase) =>
        /\ Range(phaseBoundaryIndices) = {2, 3, 4, 5}
        /\ SurvivingLabels = <<"A", "A", "A", "A">>
        /\ Len(outFile) = 4

\* C2 amended: on [A,A,A,B,B,A,A] the pairs (2,3) and (4,5) are removed and the
\* three samples 0, 1 and 6 survive, labels [A,A,A], each aligned with its own
\* pressure, density, viscosity and enthalpy.
C2_ThreeSurvive ==
    (Processed /\ phase = ExamplePhase) =>
        /\ phaseBoundaryIndices = <<2, 3, 4, 5>>
        /\ SurvivingLabels = <<"A", "A", "A">>
        /\ Len(outFile) = 3
        /\ Len(pressure) = 3
        /\ AlignedAt(1, 0) /\ AlignedAt(2, 1) /\ AlignedAt(3, 6)

C2_Witness == Processed /\ phase = ExamplePhase /\ Len(outFile) = 3

\* The only phase change of the response is between samples b and b+1.
OnlyChangeAt(ph, b) ==
    \A k \in 0..(Len(ph) - 2) : (At(ph, k) # At(ph, k + 1)) <=> (k = b)

\* C10 as stated: a boundary at the first pair (0,1) or at the last pair
\* (len-2, len-1) is not detected: nothing is removed and all len rows are kept.
C10_FirstAndLastUndetected ==
    (Processed /\ (OnlyChangeAt(phase, 0) \/ OnlyChangeAt(phase, Len(phase) - 2))) =>
        /\ phaseBoundaryIndices = <<>>
        /\ Len(outFile) = Len(phase)

\* C10 amended: a boundary at the first pair (0,1) is not detected (nothing is
\* removed, all len rows are kept); a boundary at the last pair of a response of
\* at least three samples is detected and both samples are removed.
C10_OnlyFirstUndetected ==
    Processed =>
        /\ (OnlyChangeAt(phase, 0) =>
              phaseBoundaryIndices = <<>> /\ Len(outFile) = Len(phase))
        /\ ((Len(phase) >= 3 /\ OnlyChangeAt(phase, Len(phase) - 2)) =>
              /\ phaseBoundaryIndices = <<Len(phase) - 2, Len(phase) - 1>>
              /\ Len(outFile) = Len(phase) - 2)

C10_Witness ==
    /\ Processed
    /\ Len(phase) >= 4
    /\ OnlyChangeAt(phase, Len(phase) - 2)
    /\ Len(outFile) = Len(phase) - 2

\* C3: no two rows written for the same temperature query have the same pressure.
C3_DistinctPressures ==
    \A r1 \in 1..Len(outFile), r2 \in 1..Len(outFile) :
        (r1 < r2 /\ rowOrigin[r1][1] = rowOrigin[r2][1]) => outFile[r1].p # outFile[r2].p

\* The sample of the logged response that row r was written from.
SampleOf(r) == rowOrigin[r][2]
QueryOf(r) == requests[rowOrigin[r][1] + 1]

C4_State ==
    /\ Len(requests) <= cmdArgs.n_temp
    /\ (pc = "done" => Len(requests) = cmdArgs.n_temp)
    /\ \A k \in 1..Len(requests) : requests[k].i = k - 1
    /\ Len(rowOrigin) = Len(outFile)
    /\ \A r \in 1..Len(outFile) :
          /\ rowOrigin[r][1] < Len(requests)
          /\ outFile[r].temperature = QueryOf(r).query.T
          /\ outFile[r].rho = At(ServiceValues(QueryOf(r).phase).Density_kgm3, SampleOf(r))
          /\ outFile[r].p = At(ServiceValues(QueryOf(r).phase).Pressure_Pa, SampleOf(r))
    /\ \A r1 \in 1..Len(outFile), r2 \in 1..Len(outFile) :
          r1 < r2 =>
              \/ rowOrigin[r1][1] < rowOrigin[r2][1]
              \/ rowOrigin[r1][1] = rowOrigin[r2][1] /\ SampleOf(r1) < SampleOf(r2)
    /\ \A k \in 1..(Len(requests) - 1) :
          Cardinality({r \in 1..Len(outFile) : rowOrigin[r][1] = k - 1})
              = Len(requests[k].phase) - Cardinality(Removed(requests[k].phase))

C4_Step ==
    /\ \E m \in 0..1 : Len(requests') = Len(requests) + m
    /\ SubSeq(requests', 1, Len(requests)) = requests
    /\ Len(outFile') >= Len(outFile)
    /\ SubSeq(outFile', 1, Len(outFile)) = outFile
    /\ (requests' # requests => outFile' = outFile)
    /\ \A r \in (Len(outFile) + 1)..Len(outFile') :
          /\ requests' = requests
          /\ rowOrigin'[r][1] = Len(requests) - 1

\* C4: one request per temperature, in grid order; the rows of temperature i are
\* all appended before any request or row of temperature i+1; the table is
\* temperature-major, keeps the order of the surviving samples within a
\* temperature, and every row carries the temperature of its query.
C4_Ordering == [](C4_State) /\ [][C4_Step]_vars

C4_Witness ==
    /\ pc = "done"
    /\ cmdArgs.n_temp = 2
    /\ cmdArgs.min_temp # cmdArgs.max_temp
    /\ Len(requests) = 2
    /\ Len(requests[1].phase) > Cardinality({r \in 1..Len(outFile) : rowOrigin[r][1] = 0})
    /\ Cardinality({r \in 1..Len(outFile) : rowOrigin[r][1] = 0}) >= 1
    /\ Cardinality({r \in 1..Len(outFile) : rowOrigin[r][1] = 1}) >= 2

\* C5: with a component other than H2O and CO2 no request is ever issued and
\* the run (of at least one temperature) does not complete.
C5_UnsupportedComponentFails ==
    cmdArgs.comp_name \notin Supported =>
        /\ requests = <<>>
        /\ (cmdArgs.n_temp >= 1 => pc # "done")

\* C6: with n_press < 2 the run ends before any network activity: no request,
\* no pressure increment (no division by n_press - 1), no file, no rows.
C6_InvalidNPress ==
    cmdArgs.n_press < 2 =>
        /\ pc \in {"start", "press", "exited"}
        /\ requests = <<>>
        /\ delta_pressure = NotComputed
        /\ fileName = ""
        /\ header = <<>>
        /\ outFile = <<>>

C6_Witness == cmdArgs.n_press = 1 /\ pc = "exited" /\ cmdArgs.n_temp >= 1

\* C7: a failed remote call (network error or non-success status) ends the run:
\* no row of that temperature, no later request.
C7_FailureIsFatal ==
    \A k \in 1..Len(requests) :
        requests[k].outcome \in {"network_error", "error_status"} =>
            /\ Len(requests) = k
            /\ pc \in {"parse", "crashed"}
            /\ \A r \in 1..Len(outFile) : rowOrigin[r][1] < k - 1

\* C8: when the run is aborted at a temperature i > 0 the file does not hold
\* the header and the rows of the temperatures 0..i-1.
C8_NoPartialOutput ==
    (pc = "crashed" /\ i >= 1) => (header = <<>> /\ outFile = <<>>)

\* The i-th grid temperature in closed form, minTemp + i*(maxTemp-minTemp)/(nTemp-1).
GridValue(k) ==
    Rat(cmdArgs.min_temp * (cmdArgs.n_temp - 1) + k * (cmdArgs.max_temp - cmdArgs.min_temp),
        cmdArgs.n_temp - 1)

Queried(k) == requests[k + 1].query.T

C9_Values ==
    /\ Len(requests) = cmdArgs.n_temp
    /\ cmdArgs.n_temp >= 2 =>
          /\ \A k \in 0..(cmdArgs.n_temp - 1) : RatEq(Queried(k), GridValue(k))
          /\ RatEq(Queried(0), RatOfInt(cmdArgs.min_temp))
          /\ RatEq(Queried(cmdArgs.n_temp - 1), RatOfInt(cmdArgs.max_temp))
          /\ \A k \in 0..(cmdArgs.n_temp - 2) :
                RatEq(RatSub(Queried(k + 1), Queried(k)), RatSub(Queried(1), Queried(0)))
    /\ cmdArgs.n_temp = 1 =>
          /\ RatEq(Queried(0), RatOfInt(cmdArgs.min_temp))
          /\ delta_temperature = RatOfInt(0)

StrictlyMonotonic ==
    \/ \A k \in 0..(cmdArgs.n_temp - 2) : RatLess(Queried(k), Queried(k + 1))
    \/ \A k \in 0..(cmdArgs.n_temp - 2) : RatLess(Queried(k + 1), Queried(k))

\* C9 as stated: for every (minTemp, maxTemp, nTemp >= 2) the queried
\* temperatures are the nTemp grid values, strictly monotonic, from minTemp to
\* maxTemp, uniformly spaced; for nTemp = 1 they are [minTemp].
C9_GridAlwaysStrict ==
    (pc = "done" /\ cmdArgs.n_temp >= 1) =>
        /\ C9_Values
        /\ (cmdArgs.n_temp >= 2 => StrictlyMonotonic)

\* C9 amended: as stated, but strictly monotonic only when minTemp # maxTemp
\* (increasing when minTemp < maxTemp, decreasing when minTemp > maxTemp); with
\* minTemp = maxTemp every queried temperature equals minTemp.
C9_Grid ==
    (pc = "done" /\ cmdArgs.n_temp >= 1) =>
        /\ C9_Values
        /\ ((cmdArgs.n_temp >= 2 /\ cmdArgs.min_temp < cmdArgs.max_temp) =>
              \A k \in 0..(cmdArgs.n_temp - 2) : RatLess(Queried(k), Queried(k + 1)))
        /\ ((cmdArgs.n_temp >= 2 /\ cmdArgs.min_temp > cmdArgs.max_temp) =>
              \A k \in 0..(cmdArgs.n_temp - 2) : RatLess(Queried(k + 1), Queried(k)))
        /\ ((cmdArgs.n_temp >= 2 /\ cmdArgs.min_temp = cmdArgs.max_temp) =>
              \A k \in 0..(cmdArgs.n_temp - 1) : RatEq(Queried(k), RatOfInt(cmdArgs.min_temp)))

\* A grid of at least three points whose step is not a whole number.
C9_Witness ==
    /\ pc = "done"
    /\ cmdArgs.n_temp >= 3
    /\ cmdArgs.min_temp < cmdArgs.max_temp
    /\ (cmdArgs.max_temp - cmdArgs.min_temp) % (cmdArgs.n_temp - 1) # 0
    /\ Len(requests) = cmdArgs.n_temp

====
